---- MODULE Spec2Model ----
(***************************************************************************)
(* Model of gbentor/ib_platform: the historical-data fetcher.              *)
(*                                                                         *)
(* Two threads share one IBapi object (src/IBApp.py):                      *)
(*   - the orchestration thread runs main() of src/getHistoricalData.py;   *)
(*   - the response thread (IBUtils.init_app_listener) runs the EWrapper   *)
(*     callbacks historicalData, historicalDataEnd, contractDetails,       *)
(*     contractDetailsEnd and error.                                       *)
(* `open_requests += 1` / `-= 1` are unlocked read-modify-writes of a      *)
(* shared attribute, so each is modelled as a load step and a store step.  *)
(* Times are minutes; the session times are minutes since midnight.        *)
(***************************************************************************)
EXTENDS Integers, Sequences, FiniteSets, TLC

VARIABLES
    sec_type,             \* Config.sec_type: "OPT", "STK" or "FX"
    config,               \* Config: start_time, end_time, request_interval; num_days is
                          \* the number of (asset, date) units
    now,                  \* datetime.now(), minutes since the model's origin
    rand_hi,              \* the run's largest request id: randint(10, rand_hi)
    \* ---- main() of getHistoricalData.py
    mpc,                  \* position of the orchestration thread
    day,                  \* index in the flattened (asset, date) iteration
    query_time,           \* main's query_time
    interval_size,        \* main's interval_size
    contracts_to_get,     \* main's contracts_to_get, the part still to request
    bid_or_ask,           \* side of the next DataRequest of the current contract
    m_tmp,                \* value loaded by the pending `open_requests += 1` (0 when none)
    main_exc,             \* exception that ended the orchestration thread
    \* ---- IBapi fields
    req_id_to_contract,   \* registry: id -> entry
    open_requests,
    sent_time_queue,
    contracts_to_delete,  \* defaultdict: strike -> list of sides
    output_file,          \* [day, open]; day = 0 is None
    \* ---- option_chain_data
    chain_kind,           \* "none" | "defaultdict" | "ordered"
    open_spot_price,
    all_contracts,        \* strike -> list of sides (insertion order)
    all_contracts_fetched,
    \* ---- the provider (TWS) side of the connection
    prov_open,            \* <<id, day>> of historical requests with no terminal event yet
    ref_open,             \* reference-price query (id 1) not yet ended
    det_open,             \* contract-details query (id 2) not yet ended
    \* ---- response thread
    rpc,                  \* "idle" | "dec" (store of `open_requests -= 1` pending) | "dead"
    r_tmp,                \* value loaded by the pending `open_requests -= 1` (0 when none)
    resp_exc,             \* exception that ended the response thread
    last,                 \* the last callback the response thread ran
    \* ---- history
    issued,               \* minute -> number of reqHistoricalData calls made in it
    written,              \* <<day of the file, day of the request>> of bars written
    no_data,              \* <<strike, right>> of the no-data errors error() handled this date
    barred,               \* no_data as it was when the current bucket's remove_contracts began
    bucket_sent           \* <<strike, right, bid_or_ask>> of the requests sent since the
                          \* last remove_contracts returned, in order

mainVars  == <<mpc, day, query_time, interval_size, contracts_to_get, bid_or_ask, m_tmp, main_exc>>
appVars   == <<req_id_to_contract, open_requests, sent_time_queue, contracts_to_delete, output_file>>
chainVars == <<chain_kind, open_spot_price, all_contracts, all_contracts_fetched>>
provVars  == <<prov_open, ref_open, det_open>>
respVars  == <<rpc, r_tmp, resp_exc, last>>
histVars  == <<issued, written, no_data, barred, bucket_sent>>
envVars   == <<sec_type, config, now, rand_hi>>
vars == <<mainVars, appVars, chainVars, provVars, respVars, histVars, envVars>>

-----------------------------------------------------------------------------
(* Program constants *)

OPEN_SPOT_PRICE_REQ_ID == 1
ALL_OPTION_CONTRACTS_DETAILS_REQ_ID == 2
SUPPORTED_SEC_TYPES == {"OPT", "STK", "FX"}
mode == "historical"

FilteredCodes == {2103, 2104, 2108, 2157, 2158}
NoDataCode == 162
NoDataMsg == "HMDS query returned no data"

QueueLimit == 58          \* while len(app.sent_time_queue) > 58
OpenLimit == 49           \* while app.open_requests > 49
EvictMinutes == 10        \* (...).seconds / 60 > 10
MinutesPerDay == 1440     \* timedelta.seconds wraps at one day
ProviderRate == 60        \* "Only 60 data request are allowed in 10 minutes"
ProviderOpen == 50        \* "50 request may be active at the same time"
IdLo == 10                \* randint(10, 99999)
IdMax == 99999
GraceMinutes == 5         \* end_time + timedelta(minutes=5)
UnsetPrice == -1          \* option_chain_data.open_spot_price = -1

-----------------------------------------------------------------------------
(* Bounds of the model *)

FreshDays == 1            \* (asset, date) units of the runs started from scratch
IdHi == 11                \* the model draws request ids from IdLo..IdHi,
                          \* and from IdLo..IdHi+1 in the stock run started mid-day
MaxTime == 11             \* the clock stops advancing here
TickStep == 11            \* one clock step: just over the 10-minute window
FreshInterval == 240      \* request_interval of the runs started from scratch
LoadedSent == 56          \* requests already sent in the runs started mid-day
LoadedOpen == 48          \* of which still outstanding (STK run)
LoadedIdBase == 1000      \* ids of the requests sent before the model starts
SessStart == 570          \* Config.start_time, 09:30 in minutes
MaxSession == 3           \* longest session of the bucket-loop runs, in minutes
MaxInterval == 6          \* longest request_interval of the bucket-loop runs
LiveDays == 2             \* (asset, date) units of the runs of several dates

\* the option chain the provider reports for the expiry
Chain == {<<100, "C">>, <<110, "C">>}
\* the closes of the bars of the reference-price query
Prices == {101, 102}
DistNum == 5              \* pct_strikes_from_atm = DistNum / DistDen
DistDen == 100
StrayIds == {99}          \* an id the program never issued
EventCodes == {2104, NoDataCode, 165}
EventMsgs == {NoDataMsg, "other"}
RandIds == IdLo..rand_hi

-----------------------------------------------------------------------------
(* Helpers *)

EmptyMap == [x \in {} |-> 0]
Put(f, k, v) == [x \in (DOMAIN f) \cup {k} |-> IF x = k THEN v ELSE f[x]]
Remove(f, k) == [x \in (DOMAIN f) \ {k} |-> f[x]]
Abs(x) == IF x < 0 THEN -x ELSE x
Min(S) == CHOOSE x \in S : \A y \in S : x <= y
NoEvent == [kind |-> "none", id |-> 0, code |-> 0, msg |-> "", known |-> FALSE]

RECURSIVE SortedSeq(_)
SortedSeq(S) == IF S = {} THEN <<>> ELSE <<Min(S)>> \o SortedSeq(S \ {Min(S)})

RECURSIVE SumIssued(_, _)
SumIssued(f, T) == IF T = {} THEN 0
                   ELSE LET t == Min(T) IN f[t] + SumIssued(f, T \ {t})

-----------------------------------------------------------------------------
(* getHistoricalData.get_times_and_interval *)

RECURSIVE WalkBack(_, _, _)
WalkBack(tmp, start_time, request_interval) ==
    IF tmp - request_interval > start_time
    THEN WalkBack(tmp - request_interval, start_time, request_interval)
    ELSE tmp

get_times_and_interval(start_time, end_time, request_interval) ==
    LET qt == WalkBack(end_time, start_time, request_interval)
    IN [end_time      |-> end_time + GraceMinutes,
        interval_size |-> (qt - start_time) % MinutesPerDay,
        query_time    |-> qt]

-----------------------------------------------------------------------------
(* Option chain helpers *)

\* Utils.take_closest: the element of the sorted list closest to the number,
\* the lower one on a tie.
take_closest(keys, number) ==
    CHOOSE k \in keys :
        \A j \in keys : \/ Abs(k - number) < Abs(j - number)
                        \/ (Abs(k - number) = Abs(j - number) /\ k <= j)

TooFar(strike, atm_strike) == Abs(strike - atm_strike) * DistDen > DistNum * atm_strike

\* OPT.keep_close_strikes: the mapping it leaves in all_contracts
keep_close_strikes(contracts, pending, spot) ==
    LET atm_strike == take_closest(DOMAIN contracts, spot)
        marked == (DOMAIN pending) \cup {s \in DOMAIN contracts : TooFar(s, atm_strike)}
    IN [s \in (DOMAIN contracts) \ marked |-> contracts[s]]

\* keep_close_strikes deletes every key of contracts_to_delete from all_contracts;
\* a key that is not in all_contracts raises KeyError
keep_close_strikes_raises(contracts, pending) ==
    \E s \in DOMAIN pending : s \notin DOMAIN contracts

RECURSIVE Flatten(_, _)
Flatten(contracts, strikes) ==
    IF strikes = <<>> THEN <<>>
    ELSE LET s == Head(strikes)
         IN [i \in 1..Len(contracts[s]) |-> <<s, contracts[s][i]>>]
            \o Flatten(contracts, Tail(strikes))

\* get_wanted_contracts: OPT walks the chain, STK and FX have one contract
\* (ibapi's Contract() has strike 0 and right "")
get_wanted_contracts ==
    IF sec_type = "OPT"
    THEN Flatten(all_contracts, SortedSeq(DOMAIN all_contracts))
    ELSE << <<0, "">> >>

SeqSet(seq) == {seq[i] : i \in 1..Len(seq)}
\* the (strike, side) pairs of a chain
Flat(contracts) ==
    UNION {{<<s, r>> : r \in SeqSet(contracts[s])} : s \in DOMAIN contracts}

\* IBapi.remove_contracts, the loop: delete every queued side that is present
remove_contracts_loop(contracts, pending) ==
    [s \in DOMAIN contracts |->
        IF s \in DOMAIN pending
        THEN SelectSeq(contracts[s], LAMBDA e : e \notin SeqSet(pending[s]))
        ELSE contracts[s]]

\* get_req_id drawing from randint(1, ...) instead of randint(10, ...)
get_req_id_from_one(used_ids) == (OPEN_SPOT_PRICE_REQ_ID..rand_hi) \ used_ids

\* get_req_id without its loop on used_ids: whatever randint returns
get_req_id_any(used_ids) == RandIds

\* IBUtils.get_req_id: the ids randint may return that leave the loop
get_req_id(used_ids) == RandIds \ used_ids

AddIssued(f, t) == [f EXCEPT ![t] = @ + 1]

-----------------------------------------------------------------------------
(* Initial states *)

\* registry entry of OPT.send_historical_data_request / STK... (with the
\* DataRequest) and of FX.send_historical_data_request (without it).
\* The entry's "time" is only logged and is left out.
Entry(strike, right, side, d) ==
    [strike |-> strike, right |-> right, bid_or_ask |-> side, day |-> d,
     data_request |-> sec_type # "FX"]

Times == 0..(MaxTime + 1)

\* The state after __init__, Config and init_app_listener: nothing sent yet.
InitFresh ==
    /\ sec_type \in SUPPORTED_SEC_TYPES
    /\ config = [start_time |-> 570, end_time |-> 960, request_interval |-> FreshInterval,
                 num_days |-> FreshDays]
    /\ now = 0 /\ rand_hi = IdHi
    /\ mpc = "start_date" /\ day = 1 /\ query_time = 0 /\ interval_size = 0
    /\ contracts_to_get = <<>> /\ bid_or_ask = "ASK" /\ m_tmp = 0 /\ main_exc = "none"
    /\ req_id_to_contract = EmptyMap /\ open_requests = 0 /\ sent_time_queue = <<>>
    /\ contracts_to_delete = EmptyMap /\ output_file = [day |-> 0, open |-> FALSE]
    /\ chain_kind = "none" /\ open_spot_price = UnsetPrice /\ all_contracts = EmptyMap
    /\ all_contracts_fetched = FALSE
    /\ prov_open = {} /\ ref_open = FALSE /\ det_open = FALSE
    /\ rpc = "idle" /\ r_tmp = 0 /\ resp_exc = "none" /\ last = NoEvent
    /\ issued = [t \in Times |-> 0] /\ written = {}
    /\ no_data = {} /\ barred = {} /\ bucket_sent = <<>>

LoadedIds == (LoadedIdBase + 1)..(LoadedIdBase + LoadedOpen)

\* A stock run in the 29th of its 30 buckets (09:30-16:00, 13-minute buckets):
\* LoadedSent requests went out in the last minute, LoadedOpen of them are
\* still unanswered and the provider leaves them unanswered.
InitLoadedSTK ==
    /\ sec_type = "STK"
    /\ config = [start_time |-> 570, end_time |-> 960, request_interval |-> 13,
                 num_days |-> 1]
    /\ now = 0 /\ rand_hi = IdHi + 1
    /\ mpc = "bucket" /\ day = 1 /\ query_time = 947 /\ interval_size = 13
    /\ contracts_to_get = <<>> /\ bid_or_ask = "ASK" /\ m_tmp = 0 /\ main_exc = "none"
    /\ req_id_to_contract = [i \in LoadedIds |->
                                Entry(0, "", IF i % 2 = 1 THEN "ASK" ELSE "BID", 1)]
    /\ open_requests = LoadedOpen
    /\ sent_time_queue = [i \in 1..LoadedSent |-> 0]
    /\ contracts_to_delete = EmptyMap /\ output_file = [day |-> 1, open |-> TRUE]
    /\ chain_kind = "none" /\ open_spot_price = UnsetPrice /\ all_contracts = EmptyMap
    /\ all_contracts_fetched = FALSE
    /\ prov_open = {<<i, 1>> : i \in LoadedIds} /\ ref_open = FALSE /\ det_open = FALSE
    /\ rpc = "idle" /\ r_tmp = 0 /\ resp_exc = "none" /\ last = NoEvent
    /\ issued = [t \in Times |-> IF t = 0 THEN LoadedSent ELSE 0] /\ written = {}
    /\ no_data = {} /\ barred = {} /\ bucket_sent = << <<0, "", "ASK">>, <<0, "", "BID">> >>

\* An option run with two dates, in the 28th of the 30 buckets of the second
\* date (one contract): the first date's file existed and was skipped, the
\* LoadedSent - 2 requests of the second date went out in the last minute and
\* all of them are answered; the two dates' reference-price queries went out
\* in the same minute.
InitLoadedOPT ==
    /\ sec_type = "OPT"
    /\ config = [start_time |-> 570, end_time |-> 960, request_interval |-> 13,
                 num_days |-> 2]
    /\ now = 0 /\ rand_hi = IdHi
    /\ mpc = "bucket" /\ day = 2 /\ query_time = 934 /\ interval_size = 13
    /\ contracts_to_get = <<>> /\ bid_or_ask = "ASK" /\ m_tmp = 0 /\ main_exc = "none"
    /\ req_id_to_contract = EmptyMap /\ open_requests = 0
    /\ sent_time_queue = [i \in 1..(LoadedSent - 2) |-> 0]
    /\ contracts_to_delete = EmptyMap /\ output_file = [day |-> 2, open |-> TRUE]
    /\ chain_kind = "ordered" /\ open_spot_price = 101
    /\ all_contracts = [s \in {100} |-> <<"C">>]
    /\ all_contracts_fetched = TRUE
    /\ prov_open = {} /\ ref_open = FALSE /\ det_open = FALSE
    /\ rpc = "idle" /\ r_tmp = 0 /\ resp_exc = "none" /\ last = NoEvent
    /\ issued = [t \in Times |-> IF t = 0 THEN LoadedSent ELSE 0] /\ written = {}
    /\ no_data = {} /\ barred = {} /\ bucket_sent = << <<100, "C", "ASK">>, <<100, "C", "BID">> >>

Init == InitFresh \/ InitLoadedSTK \/ InitLoadedOPT

-----------------------------------------------------------------------------
(* The orchestration thread: main() of getHistoricalData.py *)

Times0 == get_times_and_interval(config.start_time, config.end_time, config.request_interval)

\* `continue` / the end of the body of `for date in config.dates`
NextDate ==
    /\ day' = day + 1
    /\ mpc' = IF day + 1 > config.num_days THEN "final_drain" ELSE "start_date"

\* main line 92, app.get_all_needed_contracts: for OPT up to the call of
\* reqHistoricalData in get_underline_open_price (a date in the past); the base
\* class's method, used by STK and FX, returns at once.
StartDate ==
    /\ mpc = "start_date"
    /\ IF sec_type = "OPT"
       THEN /\ chain_kind' = "defaultdict"
            /\ open_spot_price' = UnsetPrice
            /\ all_contracts' = EmptyMap
            /\ all_contracts_fetched' = FALSE
            /\ contracts_to_delete' = EmptyMap
            /\ ref_open' = TRUE
            /\ issued' = AddIssued(issued, now)
            /\ mpc' = "wait_spot"
            /\ UNCHANGED <<query_time, interval_size>>
       ELSE /\ query_time' = Times0.query_time
            /\ interval_size' = Times0.interval_size
            /\ mpc' = "file_check"
            /\ UNCHANGED <<chainVars, contracts_to_delete, ref_open, issued>>
    /\ no_data' = {} /\ barred' = {}
    /\ UNCHANGED <<day, contracts_to_get, bid_or_ask, m_tmp, main_exc>>
    /\ UNCHANGED <<req_id_to_contract, open_requests, sent_time_queue, output_file>>
    /\ UNCHANGED <<prov_open, det_open, respVars, written, bucket_sent, envVars>>

\* get_underline_open_price lines 349-350, then reqContractDetails (line 314)
WaitSpot ==
    /\ mpc = "wait_spot"
    /\ open_spot_price # UnsetPrice
    /\ det_open' = TRUE
    /\ mpc' = "wait_contracts"
    /\ UNCHANGED <<day, query_time, interval_size, contracts_to_get, bid_or_ask, m_tmp, main_exc>>
    /\ UNCHANGED <<appVars, chainVars, prov_open, ref_open, respVars, histVars, envVars>>

\* get_all_needed_contracts lines 315-318 and main line 94
WaitContracts ==
    /\ mpc = "wait_contracts"
    /\ all_contracts_fetched
    /\ IF keep_close_strikes_raises(all_contracts, contracts_to_delete)
       THEN /\ main_exc' = "KeyError"
            /\ mpc' = "crashed"
            /\ UNCHANGED <<all_contracts, chain_kind, contracts_to_delete,
                           query_time, interval_size>>
       ELSE /\ all_contracts' = keep_close_strikes(all_contracts, contracts_to_delete,
                                                   open_spot_price)
            /\ chain_kind' = "ordered"
            /\ contracts_to_delete' = EmptyMap
            /\ query_time' = Times0.query_time
            /\ interval_size' = Times0.interval_size
            /\ mpc' = "file_check"
            /\ UNCHANGED main_exc
    /\ UNCHANGED <<day, contracts_to_get, bid_or_ask, m_tmp>>
    /\ UNCHANGED <<req_id_to_contract, open_requests, sent_time_queue, output_file>>
    /\ UNCHANGED <<open_spot_price, all_contracts_fetched>>
    /\ UNCHANGED <<provVars, respVars, histVars, envVars>>

\* main lines 99-102: is_file_exists is the user's answer
FileCheck ==
    /\ mpc = "file_check"
    /\ \E skip \in BOOLEAN :
        IF skip
        THEN /\ NextDate
             /\ UNCHANGED output_file
        ELSE /\ output_file' = [day |-> day, open |-> TRUE]
             /\ mpc' = "bucket"
             /\ UNCHANGED day
    /\ UNCHANGED <<query_time, interval_size, contracts_to_get, bid_or_ask, m_tmp, main_exc>>
    /\ UNCHANGED <<req_id_to_contract, open_requests, sent_time_queue, contracts_to_delete>>
    /\ UNCHANGED <<chainVars, provVars, respVars, histVars, envVars>>

\* main line 104 and the loop of IBapi.remove_contracts (lines 220-224).
\* With no option chain (STK, FX) the loop body dereferences None.
Bucket ==
    /\ mpc = "bucket"
    /\ IF query_time < config.end_time + GraceMinutes
       THEN IF contracts_to_delete # EmptyMap /\ chain_kind = "none"
            THEN /\ main_exc' = "AttributeError"
                 /\ mpc' = "crashed"
                 /\ UNCHANGED all_contracts
            ELSE /\ all_contracts' = remove_contracts_loop(all_contracts, contracts_to_delete)
                 /\ mpc' = "remove_clear"
                 /\ UNCHANGED main_exc
       ELSE /\ mpc' = "drain"
            /\ UNCHANGED <<all_contracts, main_exc>>
    /\ barred' = IF query_time < config.end_time + GraceMinutes THEN no_data ELSE barred
    /\ UNCHANGED <<day, query_time, interval_size, contracts_to_get, bid_or_ask, m_tmp>>
    /\ UNCHANGED <<appVars, chain_kind, open_spot_price, all_contracts_fetched>>
    /\ UNCHANGED <<provVars, respVars, issued, written, no_data, bucket_sent, envVars>>

\* the step to the next bucket, main lines 115-116
NextBucket ==
    /\ interval_size' = config.request_interval
    /\ query_time' = query_time + config.request_interval
    /\ mpc' = "bucket"

\* remove_contracts line 225 and main line 107
RemoveClear ==
    /\ mpc = "remove_clear"
    /\ contracts_to_delete' = EmptyMap
    /\ contracts_to_get' = get_wanted_contracts
    /\ bid_or_ask' = "ASK"
    /\ IF get_wanted_contracts = <<>>
       THEN NextBucket
       ELSE /\ mpc' = "check"
            /\ UNCHANGED <<query_time, interval_size>>
    /\ bucket_sent' = <<>>
    /\ UNCHANGED <<day, m_tmp, main_exc>>
    /\ UNCHANGED <<req_id_to_contract, open_requests, sent_time_queue, output_file>>
    /\ UNCHANGED <<chainVars, provVars, respVars, issued, written, no_data, barred, envVars>>

\* EClient.isConnected(): EClient.run() disconnects when a callback raises
isConnected == rpc # "dead"

\* check_pacing_violations lines 26-29: one pass of the first loop that pops
Age(t) == (now - t) % MinutesPerDay

PacingEvict ==
    /\ mpc = "check"
    /\ isConnected
    /\ Len(sent_time_queue) > QueueLimit
    /\ Age(Head(sent_time_queue)) > EvictMinutes
    /\ sent_time_queue' = Tail(sent_time_queue)
    /\ UNCHANGED <<mainVars, req_id_to_contract, open_requests, contracts_to_delete, output_file>>
    /\ UNCHANGED <<chainVars, provVars, respVars, histVars, envVars>>

\* check_pacing_violations without its loop on open_requests
check_pacing_violations_queue_only == Len(sent_time_queue) <= QueueLimit

\* the conditions under which check_pacing_violations leaves its two loops
check_pacing_violations ==
    /\ Len(sent_time_queue) <= QueueLimit
    /\ open_requests <= OpenLimit

PacingPass ==
    /\ mpc = "check"
    /\ isConnected
    /\ check_pacing_violations
    /\ mpc' = "send"
    /\ UNCHANGED <<day, query_time, interval_size, contracts_to_get, bid_or_ask, m_tmp, main_exc>>
    /\ UNCHANGED <<appVars, chainVars, provVars, respVars, histVars, envVars>>

\* main asking for the 'ASK' side in both of a contract's requests
NewEntry_always_ask ==
    IF sec_type = "FX"
    THEN Entry(0, "F", "ASK", day)
    ELSE Entry(Head(contracts_to_get)[1], Head(contracts_to_get)[2], "ASK", day)

\* the DataRequest main builds for the contract at the head of the list
NewEntry ==
    IF sec_type = "FX"
    THEN Entry(0, "F", bid_or_ask, day)
    ELSE Entry(Head(contracts_to_get)[1], Head(contracts_to_get)[2], bid_or_ask, day)

\* registry insert and reqHistoricalData with a fresh id
Register(id) ==
    /\ req_id_to_contract' = Put(req_id_to_contract, id, NewEntry)
    /\ prov_open' = prov_open \cup {<<id, day>>}
    /\ issued' = AddIssued(issued, now)
    /\ bucket_sent' = Append(bucket_sent, <<Head(contracts_to_get)[1],
                                             Head(contracts_to_get)[2],
                                             NewEntry.bid_or_ask>>)

\* send_historical_data_request without `self.sent_time_queue.append(...)`
SendLoad_no_append ==
    /\ mpc = "send"
    /\ UNCHANGED sent_time_queue
    /\ m_tmp' = open_requests
    /\ mpc' = "send_store"
    /\ IF sec_type = "FX"
       THEN \E id \in get_req_id(DOMAIN req_id_to_contract) : Register(id)
       ELSE UNCHANGED <<req_id_to_contract, prov_open, issued, bucket_sent>>
    /\ UNCHANGED <<day, query_time, interval_size, contracts_to_get, bid_or_ask, main_exc>>
    /\ UNCHANGED <<open_requests, contracts_to_delete, output_file>>
    /\ UNCHANGED <<chainVars, ref_open, det_open, respVars, written, no_data, barred, envVars>>

\* send_historical_data_request up to the load of `open_requests += 1`:
\* IBapi lines 110-111 for OPT and STK, FX lines 427-434 for FX
SendLoad ==
    /\ mpc = "send"
    /\ sent_time_queue' = Append(sent_time_queue, now)
    /\ m_tmp' = open_requests
    /\ mpc' = "send_store"
    /\ IF sec_type = "FX"
       THEN \E id \in get_req_id(DOMAIN req_id_to_contract) : Register(id)
       ELSE UNCHANGED <<req_id_to_contract, prov_open, issued, bucket_sent>>
    /\ UNCHANGED <<day, query_time, interval_size, contracts_to_get, bid_or_ask, main_exc>>
    /\ UNCHANGED <<open_requests, contracts_to_delete, output_file>>
    /\ UNCHANGED <<chainVars, ref_open, det_open, respVars, written, no_data, barred, envVars>>

\* the store of `open_requests += 1`, the rest of OPT/STK's
\* send_historical_data_request (lines 253-257, 387-389) and main's step to
\* the next request (lines 108-116)
SendStore ==
    /\ mpc = "send_store"
    /\ open_requests' = m_tmp + 1
    /\ IF sec_type = "FX"
       THEN UNCHANGED <<req_id_to_contract, prov_open, issued, bucket_sent>>
       ELSE \E id \in get_req_id(DOMAIN req_id_to_contract) : Register(id)
    /\ IF bid_or_ask = "ASK"
       THEN /\ bid_or_ask' = "BID"
            /\ mpc' = "check"
            /\ UNCHANGED <<contracts_to_get, query_time, interval_size>>
       ELSE /\ bid_or_ask' = "ASK"
            /\ contracts_to_get' = Tail(contracts_to_get)
            /\ IF Tail(contracts_to_get) = <<>>
               THEN NextBucket
               ELSE /\ mpc' = "check"
                    /\ UNCHANGED <<query_time, interval_size>>
    /\ m_tmp' = 0
    /\ UNCHANGED <<day, main_exc>>
    /\ UNCHANGED <<sent_time_queue, contracts_to_delete, output_file>>
    /\ UNCHANGED <<chainVars, ref_open, det_open, respVars, written, no_data, barred, envVars>>

\* main lines 117-119
Drain ==
    /\ mpc = "drain"
    /\ ~(open_requests > 0)
    /\ output_file' = [day |-> day, open |-> FALSE]
    /\ NextDate
    /\ UNCHANGED <<query_time, interval_size, contracts_to_get, bid_or_ask, m_tmp, main_exc>>
    /\ UNCHANGED <<req_id_to_contract, open_requests, sent_time_queue, contracts_to_delete>>
    /\ UNCHANGED <<chainVars, provVars, respVars, histVars, envVars>>

\* main lines 122-126
FinalDrain ==
    /\ mpc = "final_drain"
    /\ ~(open_requests > 0)
    /\ mpc' = "done"
    /\ UNCHANGED <<day, query_time, interval_size, contracts_to_get, bid_or_ask, m_tmp, main_exc>>
    /\ UNCHANGED <<appVars, chainVars, provVars, respVars, histVars, envVars>>

\* time passes; the model lets it pass while the gate waits on a full window
Tick ==
    /\ mpc = "check"
    /\ Len(sent_time_queue) > QueueLimit
    /\ now + TickStep <= MaxTime
    /\ now' = now + TickStep
    /\ UNCHANGED <<mainVars, appVars, chainVars, provVars, respVars, histVars,
                   sec_type, config, rand_hi>>

-----------------------------------------------------------------------------
(* The response thread: the EWrapper callbacks of IBapi, OPT, STK and FX.    *)
(* Each callback sets the registry, contracts_to_delete, the option chain,   *)
(* `written` and the thread's own state; it never touches the rest.          *)

Event(kind, id, code, msg) ==
    [kind |-> kind, id |-> id, code |-> code, msg |-> msg,
     known |-> id \in DOMAIN req_id_to_contract]

Raise(exc) == rpc' = "dead" /\ resp_exc' = exc /\ UNCHANGED r_tmp
Return == UNCHANGED <<rpc, r_tmp, resp_exc>>
\* the load of `self.open_requests -= 1`; the store is RespStore
LoadCounter == rpc' = "dec" /\ r_tmp' = open_requests /\ UNCHANGED resp_exc

\* IBapi.write_to_file on the current output_file
write_to_file(req_day) ==
    IF output_file.day = 0
    THEN Raise("AttributeError") /\ UNCHANGED written
    ELSE IF ~output_file.open
    THEN Raise("ValueError") /\ UNCHANGED written
    ELSE Return /\ written' = written \cup {<<output_file.day, req_day>>}

\* historicalData without its final `else: raise`
historicalData_ignore_unknown(req_id, close) ==
    /\ last' = Event("historicalData", req_id, 0, "")
    /\ UNCHANGED <<req_id_to_contract, contracts_to_delete, no_data>>
    /\ UNCHANGED <<chain_kind, all_contracts, all_contracts_fetched>>
    /\ IF sec_type = "OPT" /\ req_id = OPEN_SPOT_PRICE_REQ_ID
       THEN /\ open_spot_price' = close
            /\ Return
            /\ UNCHANGED written
       ELSE /\ UNCHANGED open_spot_price
            /\ IF req_id \in DOMAIN req_id_to_contract
               THEN IF req_id_to_contract[req_id].data_request
                    THEN write_to_file(req_id_to_contract[req_id].day)
                    ELSE Raise("KeyError") /\ UNCHANGED written
               ELSE Return /\ UNCHANGED written

\* OPT.historicalData (lines 259-282), STK.historicalData (391-405),
\* FX.historicalData (437-451)
historicalData(req_id, close) ==
    /\ last' = Event("historicalData", req_id, 0, "")
    /\ UNCHANGED <<req_id_to_contract, contracts_to_delete, no_data>>
    /\ UNCHANGED <<chain_kind, all_contracts, all_contracts_fetched>>
    /\ IF sec_type = "OPT" /\ req_id = OPEN_SPOT_PRICE_REQ_ID
       THEN /\ open_spot_price' = close
            /\ Return
            /\ UNCHANGED written
       ELSE /\ UNCHANGED open_spot_price
            /\ IF req_id \in DOMAIN req_id_to_contract
               THEN IF req_id_to_contract[req_id].data_request
                    THEN write_to_file(req_id_to_contract[req_id].day)
                    ELSE Raise("KeyError") /\ UNCHANGED written
               ELSE Raise("UnknownReqId") /\ UNCHANGED written

\* historicalDataEnd without its final `else: raise`
historicalDataEnd_ignore_unknown(req_id) ==
    /\ last' = Event("historicalDataEnd", req_id, 0, "")
    /\ UNCHANGED <<contracts_to_delete, chainVars, written, no_data>>
    /\ IF req_id \in DOMAIN req_id_to_contract
       THEN IF req_id_to_contract[req_id].data_request
            THEN /\ req_id_to_contract' = Remove(req_id_to_contract, req_id)
                 /\ LoadCounter
            ELSE /\ Raise("KeyError")
                 /\ UNCHANGED req_id_to_contract
       ELSE /\ UNCHANGED req_id_to_contract
            /\ Return

\* IBapi.historicalDataEnd (lines 113-132)
historicalDataEnd(req_id) ==
    /\ last' = Event("historicalDataEnd", req_id, 0, "")
    /\ UNCHANGED <<contracts_to_delete, chainVars, written, no_data>>
    /\ IF req_id \in DOMAIN req_id_to_contract
       THEN IF req_id_to_contract[req_id].data_request
            THEN /\ req_id_to_contract' = Remove(req_id_to_contract, req_id)
                 /\ LoadCounter
            ELSE /\ Raise("KeyError")
                 /\ UNCHANGED req_id_to_contract
       ELSE /\ UNCHANGED req_id_to_contract
            /\ IF req_id = OPEN_SPOT_PRICE_REQ_ID
               THEN Return
               ELSE Raise("UnknownReqId")

\* self.contracts_to_delete[strike].append(right) on the defaultdict
AppendSide(pending, strike, right) ==
    Put(pending, strike,
        IF strike \in DOMAIN pending THEN Append(pending[strike], right) ELSE <<right>>)

\* IBapi.error without the test of line 169: every non-filtered error of a
\* tracked request is taken for the no-data error
error_no_code_test(req_id, error_code, msg) ==
    /\ last' = Event("error", req_id, error_code, msg)
    /\ UNCHANGED <<req_id_to_contract, chainVars, written>>
    /\ IF mode = "historical" /\ error_code \in FilteredCodes
       THEN Return /\ UNCHANGED <<contracts_to_delete, no_data>>
       ELSE IF req_id \in DOMAIN req_id_to_contract
            THEN IF ~req_id_to_contract[req_id].data_request
                 THEN Raise("KeyError") /\ UNCHANGED <<contracts_to_delete, no_data>>
                 ELSE /\ contracts_to_delete' =
                           AppendSide(contracts_to_delete,
                                      req_id_to_contract[req_id].strike,
                                      req_id_to_contract[req_id].right)
                      /\ no_data' = no_data \cup
                           {<<req_id_to_contract[req_id].strike,
                              req_id_to_contract[req_id].right>>}
                      /\ LoadCounter
            ELSE Return /\ UNCHANGED <<contracts_to_delete, no_data>>

\* IBapi.error without the filter of its first two lines
error_unfiltered(req_id, error_code, msg) ==
    /\ last' = Event("error", req_id, error_code, msg)
    /\ UNCHANGED <<req_id_to_contract, chainVars, written>>
    /\ IF req_id \in DOMAIN req_id_to_contract
       THEN IF ~req_id_to_contract[req_id].data_request
            THEN Raise("KeyError") /\ UNCHANGED <<contracts_to_delete, no_data>>
            ELSE IF error_code = NoDataCode /\ msg = NoDataMsg
                 THEN /\ contracts_to_delete' =
                           AppendSide(contracts_to_delete,
                                      req_id_to_contract[req_id].strike,
                                      req_id_to_contract[req_id].right)
                      /\ no_data' = no_data \cup
                           {<<req_id_to_contract[req_id].strike,
                              req_id_to_contract[req_id].right>>}
                      /\ LoadCounter
                 ELSE Return /\ UNCHANGED <<contracts_to_delete, no_data>>
       ELSE Return /\ UNCHANGED <<contracts_to_delete, no_data>>

\* IBapi.error (lines 153-173); error_string.split(':')[1] is `msg`
error(req_id, error_code, msg) ==
    /\ last' = Event("error", req_id, error_code, msg)
    /\ UNCHANGED <<req_id_to_contract, chainVars, written>>
    /\ IF mode = "historical" /\ error_code \in FilteredCodes
       THEN Return /\ UNCHANGED <<contracts_to_delete, no_data>>
       ELSE IF req_id \in DOMAIN req_id_to_contract
            THEN IF ~req_id_to_contract[req_id].data_request
                 THEN Raise("KeyError") /\ UNCHANGED <<contracts_to_delete, no_data>>
                 ELSE IF error_code = NoDataCode /\ msg = NoDataMsg
                      THEN /\ contracts_to_delete' =
                                AppendSide(contracts_to_delete,
                                           req_id_to_contract[req_id].strike,
                                           req_id_to_contract[req_id].right)
                           /\ no_data' = no_data \cup
                                {<<req_id_to_contract[req_id].strike,
                                   req_id_to_contract[req_id].right>>}
                           /\ LoadCounter
                      ELSE Return /\ UNCHANGED <<contracts_to_delete, no_data>>
            ELSE Return /\ UNCHANGED <<contracts_to_delete, no_data>>

\* all_contracts[strike][right] = contract: the defaultdict makes a missing
\* strike; the OrderedDict keep_close_strikes leaves raises KeyError on one
SetSide(contracts, strike, right) ==
    Put(contracts, strike,
        IF strike \in DOMAIN contracts
        THEN (IF right \in SeqSet(contracts[strike]) THEN contracts[strike]
              ELSE Append(contracts[strike], right))
        ELSE <<right>>)

\* IBapi.contractDetails (lines 134-142)
contractDetails(req_id, strike, right) ==
    /\ last' = Event("contractDetails", req_id, 0, "")
    /\ UNCHANGED <<req_id_to_contract, contracts_to_delete, written, no_data>>
    /\ UNCHANGED <<chain_kind, open_spot_price, all_contracts_fetched>>
    /\ IF req_id = ALL_OPTION_CONTRACTS_DETAILS_REQ_ID
       THEN IF chain_kind = "none"
            THEN Raise("AttributeError") /\ UNCHANGED all_contracts
            ELSE IF chain_kind = "ordered" /\ strike \notin DOMAIN all_contracts
            THEN Raise("KeyError") /\ UNCHANGED all_contracts
            ELSE Return /\ all_contracts' = SetSide(all_contracts, strike, right)
       ELSE Return /\ UNCHANGED all_contracts

\* IBapi.contractDetailsEnd (lines 144-151)
contractDetailsEnd(req_id) ==
    /\ last' = Event("contractDetailsEnd", req_id, 0, "")
    /\ UNCHANGED <<req_id_to_contract, contracts_to_delete, written, no_data>>
    /\ UNCHANGED <<chain_kind, open_spot_price, all_contracts>>
    /\ IF req_id = ALL_OPTION_CONTRACTS_DETAILS_REQ_ID
       THEN IF chain_kind = "none"
            THEN Raise("AttributeError") /\ UNCHANGED all_contracts_fetched
            ELSE Return /\ all_contracts_fetched' = TRUE
       ELSE Return /\ UNCHANGED all_contracts_fetched

-----------------------------------------------------------------------------
(* The provider: which events it delivers, and when.                         *)
(* It answers the requests whose id is in RandIds; a historical request gets *)
(* bars and non-terminal errors until its one terminal event (end of stream  *)
(* or the no-data error).  It can also deliver an event with an id the       *)
(* program never issued.                                                     *)

Listening == rpc = "idle" /\ mpc \notin {"done", "crashed"}
Answered == {p \in prov_open : p[1] \in RandIds}
\* what a callback never touches
CallbackFrame == UNCHANGED <<mainVars, open_requests, sent_time_queue, output_file,
                             issued, barred, bucket_sent, envVars>>
ErrorArgs == {<<c, m>> \in EventCodes \X EventMsgs : c = NoDataCode \/ m = "other"}

EvBar ==
    /\ Listening
    /\ \E p \in Answered : historicalData(p[1], 0)
    /\ CallbackFrame /\ UNCHANGED provVars

EvEnd ==
    /\ Listening
    /\ \E p \in Answered :
        /\ historicalDataEnd(p[1])
        /\ prov_open' = prov_open \ {p}
    /\ CallbackFrame /\ UNCHANGED <<ref_open, det_open>>

EvError ==
    /\ Listening
    /\ \E p \in Answered : \E a \in ErrorArgs :
        /\ error(p[1], a[1], a[2])
        /\ prov_open' = IF a[1] = NoDataCode /\ a[2] = NoDataMsg
                        THEN prov_open \ {p} ELSE prov_open
    /\ CallbackFrame /\ UNCHANGED <<ref_open, det_open>>

EvRefBar ==
    /\ Listening /\ ref_open
    /\ \E c \in Prices : historicalData(OPEN_SPOT_PRICE_REQ_ID, c)
    /\ CallbackFrame /\ UNCHANGED provVars

EvRefEnd ==
    /\ Listening /\ ref_open
    /\ historicalDataEnd(OPEN_SPOT_PRICE_REQ_ID)
    /\ ref_open' = FALSE
    /\ CallbackFrame /\ UNCHANGED <<prov_open, det_open>>

EvDetails ==
    /\ Listening /\ det_open
    /\ \E c \in Chain \ Flat(all_contracts) :
        contractDetails(ALL_OPTION_CONTRACTS_DETAILS_REQ_ID, c[1], c[2])
    /\ CallbackFrame /\ UNCHANGED provVars

EvDetailsEnd ==
    /\ Listening /\ det_open
    /\ Chain \subseteq Flat(all_contracts)
    /\ contractDetailsEnd(ALL_OPTION_CONTRACTS_DETAILS_REQ_ID)
    /\ det_open' = FALSE
    /\ CallbackFrame /\ UNCHANGED <<prov_open, ref_open>>

EvStrayBar ==
    /\ Listening
    /\ \E id \in StrayIds : historicalData(id, 0)
    /\ CallbackFrame /\ UNCHANGED provVars

EvStrayEnd ==
    /\ Listening
    /\ \E id \in StrayIds : historicalDataEnd(id)
    /\ CallbackFrame /\ UNCHANGED provVars

EvStrayError ==
    /\ Listening
    /\ \E id \in StrayIds : \E a \in ErrorArgs : error(id, a[1], a[2])
    /\ CallbackFrame /\ UNCHANGED provVars

\* the store of `self.open_requests -= 1` (historicalDataEnd line 128, error line 171)
RespStore ==
    /\ rpc = "dec"
    /\ mpc \notin {"done", "crashed"}
    /\ open_requests' = r_tmp - 1
    /\ rpc' = "idle"
    /\ r_tmp' = 0
    /\ UNCHANGED <<mainVars, req_id_to_contract, sent_time_queue, contracts_to_delete, output_file>>
    /\ UNCHANGED <<chainVars, provVars, resp_exc, last, histVars, envVars>>

-----------------------------------------------------------------------------

Next ==
    \/ StartDate \/ WaitSpot \/ WaitContracts \/ FileCheck
    \/ Bucket \/ RemoveClear
    \/ PacingEvict \/ PacingPass \/ SendLoad \/ SendStore
    \/ Drain \/ FinalDrain
    \/ Tick
    \/ EvBar \/ EvEnd \/ EvError
    \/ EvRefBar \/ EvRefEnd \/ EvDetails \/ EvDetailsEnd
    \/ EvStrayBar \/ EvStrayEnd \/ EvStrayError
    \/ RespStore

Spec == Init /\ [][Next]_vars

-----------------------------------------------------------------------------
(* keep_close_strikes on its own: get_all_needed_contracts has received the  *)
(* whole chain and is about to call keep_close_strikes, for every chain over *)
(* KeepStrikes, every reference price and the contents of contracts_to_delete*)
(* that error() may have appended since the clear() of line 307.             *)

KeepStrikes == {100, 110, 120}
KeepSides == {<<"C">>, <<"P">>, <<"C", "P">>}
KeepChains ==
    UNION {[S -> KeepSides] : S \in (SUBSET KeepStrikes) \ {{}}}
KeepPending ==
    {EmptyMap} \cup UNION {[S -> {<<"C">>}] : S \in {{100}, {120}}}

InitKeep ==
    /\ sec_type = "OPT"
    /\ config = [start_time |-> 570, end_time |-> 960, request_interval |-> FreshInterval,
                 num_days |-> FreshDays]
    /\ now = 0 /\ rand_hi = IdHi
    /\ mpc = "wait_contracts" /\ day = 1 /\ query_time = 0 /\ interval_size = 0
    /\ contracts_to_get = <<>> /\ bid_or_ask = "ASK" /\ m_tmp = 0 /\ main_exc = "none"
    /\ req_id_to_contract = EmptyMap /\ open_requests = 0 /\ sent_time_queue = <<>>
    /\ contracts_to_delete \in KeepPending
    /\ output_file = [day |-> 0, open |-> FALSE]
    /\ chain_kind = "defaultdict" /\ open_spot_price \in Prices
    /\ all_contracts \in KeepChains
    /\ all_contracts_fetched = TRUE
    /\ prov_open = {} /\ ref_open = FALSE /\ det_open = FALSE
    /\ rpc = "idle" /\ r_tmp = 0 /\ resp_exc = "none"
    /\ last = Event("contractDetailsEnd", ALL_OPTION_CONTRACTS_DETAILS_REQ_ID, 0, "")
    /\ issued = [t \in Times |-> IF t = 0 THEN 1 ELSE 0] /\ written = {}
    /\ no_data = {} /\ barred = {} /\ bucket_sent = <<>>

SpecKeep == InitKeep /\ [][WaitContracts]_vars

-----------------------------------------------------------------------------
(* The bucket loop on its own: a stock run of one date whose requests are    *)
(* all answered by an end of stream, for every session of SessStart to at     *)
(* most MaxSession minutes later and every request_interval up to            *)
(* MaxInterval.                                                              *)

InitTimes ==
    /\ sec_type = "STK"
    /\ \E len \in 1..MaxSession : \E interval \in 1..MaxInterval :
         config = [start_time |-> SessStart, end_time |-> SessStart + len,
                   request_interval |-> interval, num_days |-> 1]
    /\ now = 0 /\ rand_hi = IdHi
    /\ mpc = "start_date" /\ day = 1 /\ query_time = 0 /\ interval_size = 0
    /\ contracts_to_get = <<>> /\ bid_or_ask = "ASK" /\ m_tmp = 0 /\ main_exc = "none"
    /\ req_id_to_contract = EmptyMap /\ open_requests = 0 /\ sent_time_queue = <<>>
    /\ contracts_to_delete = EmptyMap /\ output_file = [day |-> 0, open |-> FALSE]
    /\ chain_kind = "none" /\ open_spot_price = UnsetPrice /\ all_contracts = EmptyMap
    /\ all_contracts_fetched = FALSE
    /\ prov_open = {} /\ ref_open = FALSE /\ det_open = FALSE
    /\ rpc = "idle" /\ r_tmp = 0 /\ resp_exc = "none" /\ last = NoEvent
    /\ issued = [t \in Times |-> 0] /\ written = {}
    /\ no_data = {} /\ barred = {} /\ bucket_sent = <<>>

NextTimes ==
    \/ StartDate \/ FileCheck
    \/ Bucket \/ RemoveClear
    \/ PacingPass \/ SendLoad \/ SendStore
    \/ Drain \/ FinalDrain
    \/ EvEnd \/ RespStore

SpecTimes == InitTimes /\ [][NextTimes]_vars

-----------------------------------------------------------------------------
(* Runs in which the provider answers every request and both threads are     *)
(* scheduled fairly: a run started from scratch whose session is one bucket, *)
(* for each variant.  The provider delivers bars, errors and the end of      *)
(* stream of the requests it was sent, and nothing else; the window of       *)
(* check_pacing_violations never fills in these runs.                        *)

InitLive ==
    /\ sec_type \in SUPPORTED_SEC_TYPES
    /\ config = [start_time |-> 570, end_time |-> 960, request_interval |-> 960 - 570,
                 num_days |-> FreshDays]
    /\ now = 0 /\ rand_hi = IdHi
    /\ mpc = "start_date" /\ day = 1 /\ query_time = 0 /\ interval_size = 0
    /\ contracts_to_get = <<>> /\ bid_or_ask = "ASK" /\ m_tmp = 0 /\ main_exc = "none"
    /\ req_id_to_contract = EmptyMap /\ open_requests = 0 /\ sent_time_queue = <<>>
    /\ contracts_to_delete = EmptyMap /\ output_file = [day |-> 0, open |-> FALSE]
    /\ chain_kind = "none" /\ open_spot_price = UnsetPrice /\ all_contracts = EmptyMap
    /\ all_contracts_fetched = FALSE
    /\ prov_open = {} /\ ref_open = FALSE /\ det_open = FALSE
    /\ rpc = "idle" /\ r_tmp = 0 /\ resp_exc = "none" /\ last = NoEvent
    /\ issued = [t \in Times |-> 0] /\ written = {}
    /\ no_data = {} /\ barred = {} /\ bucket_sent = <<>>

\* the steps of the orchestration thread
MainThread ==
    \/ StartDate \/ WaitSpot \/ WaitContracts \/ FileCheck
    \/ Bucket \/ RemoveClear
    \/ PacingPass \/ SendLoad \/ SendStore
    \/ Drain \/ FinalDrain

\* the terminal events and the answers to the two queries of
\* get_all_needed_contracts
Answers == EvEnd \/ EvRefBar \/ EvRefEnd \/ EvDetails \/ EvDetailsEnd

NextLive == MainThread \/ Answers \/ EvBar \/ EvError \/ RespStore

SpecLive ==
    /\ InitLive /\ [][NextLive]_vars
    /\ WF_vars(MainThread) /\ WF_vars(Answers) /\ WF_vars(RespStore)

-----------------------------------------------------------------------------
(* The informational notices: the runs of InitLive in which the provider     *)
(* also delivers errors with the filtered codes, carrying the id of a        *)
(* tracked request, of one of the two queries of get_all_needed_contracts,   *)
(* or an id the program never issued.                                        *)

NoticeIds ==
    (DOMAIN req_id_to_contract) \cup StrayIds
        \cup {OPEN_SPOT_PRICE_REQ_ID, ALL_OPTION_CONTRACTS_DETAILS_REQ_ID}

EvNotice ==
    /\ Listening
    /\ \E id \in NoticeIds : \E c \in FilteredCodes : error(id, c, "other")
    /\ CallbackFrame /\ UNCHANGED provVars

NextNotices == NextLive \/ EvNotice

SpecNotices == InitLive /\ [][NextNotices]_vars

-----------------------------------------------------------------------------
(* Late contract details: the runs of InitLive in which the provider also    *)
(* delivers contractDetails events for the contract-details id after it has  *)
(* delivered contractDetailsEnd, for a contract of the chain or for the put  *)
(* of a strike of the chain.                                                 *)

LateContracts == Chain \cup {<<100, "P">>}

EvLateDetails ==
    /\ Listening /\ ~det_open /\ all_contracts_fetched
    /\ \E c \in LateContracts :
        contractDetails(ALL_OPTION_CONTRACTS_DETAILS_REQ_ID, c[1], c[2])
    /\ CallbackFrame /\ UNCHANGED provVars

NextLate == NextLive \/ EvLateDetails

SpecLate == InitLive /\ [][NextLate]_vars

-----------------------------------------------------------------------------
(* Repeated terminal events: the runs of InitLive in which the provider also *)
(* delivers an end of stream or another no-data error for a request whose    *)
(* no-data error it has already delivered.  The model follows such events    *)
(* while open_requests is not negative.                                      *)

\* the ids whose no-data error was handled: error() leaves their entries in
\* the registry
StaleIds == (DOMAIN req_id_to_contract) \ {p[1] : p \in prov_open}

EvRepeat ==
    /\ Listening /\ open_requests >= 0
    /\ \E id \in StaleIds :
        \/ historicalDataEnd(id)
        \/ error(id, NoDataCode, NoDataMsg)
    /\ CallbackFrame /\ UNCHANGED provVars

NextRepeat == NextLive \/ EvRepeat

SpecRepeat == InitLive /\ [][NextRepeat]_vars

-----------------------------------------------------------------------------
(* Runs of several dates: a run started from scratch with LiveDays dates     *)
(* whose session is one bucket, for each variant, with the provider of       *)
(* NextLive.                                                                 *)

InitDays ==
    /\ sec_type \in SUPPORTED_SEC_TYPES
    /\ config = [start_time |-> 570, end_time |-> 960, request_interval |-> 960 - 570,
                 num_days |-> LiveDays]
    /\ now = 0 /\ rand_hi = IdHi
    /\ mpc = "start_date" /\ day = 1 /\ query_time = 0 /\ interval_size = 0
    /\ contracts_to_get = <<>> /\ bid_or_ask = "ASK" /\ m_tmp = 0 /\ main_exc = "none"
    /\ req_id_to_contract = EmptyMap /\ open_requests = 0 /\ sent_time_queue = <<>>
    /\ contracts_to_delete = EmptyMap /\ output_file = [day |-> 0, open |-> FALSE]
    /\ chain_kind = "none" /\ open_spot_price = UnsetPrice /\ all_contracts = EmptyMap
    /\ all_contracts_fetched = FALSE
    /\ prov_open = {} /\ ref_open = FALSE /\ det_open = FALSE
    /\ rpc = "idle" /\ r_tmp = 0 /\ resp_exc = "none" /\ last = NoEvent
    /\ issued = [t \in Times |-> 0] /\ written = {}
    /\ no_data = {} /\ barred = {} /\ bucket_sent = <<>>

SpecDays == InitDays /\ [][NextLive]_vars

-----------------------------------------------------------------------------
(* The bucket loop with several instruments: a run of one date with two      *)
(* buckets, taken up where main has opened the output file, for each variant *)
(* and, for options, each universe of BucketChains.  The provider answers    *)
(* with errors and ends of stream.                                           *)

BucketChains ==
    {[s \in {100} |-> <<"C">>],
     [s \in {100} |-> <<"C", "P">>],
     [s \in {100, 105} |-> IF s = 100 THEN <<"C", "P">> ELSE <<"C">>]}

InitBuckets ==
    /\ sec_type \in SUPPORTED_SEC_TYPES
    /\ config = [start_time |-> 570, end_time |-> 960, request_interval |-> FreshInterval,
                 num_days |-> 1]
    /\ now = 0 /\ rand_hi = IdHi
    /\ mpc = "bucket" /\ day = 1
    /\ query_time = Times0.query_time /\ interval_size = Times0.interval_size
    /\ contracts_to_get = <<>> /\ bid_or_ask = "ASK" /\ m_tmp = 0 /\ main_exc = "none"
    /\ req_id_to_contract = EmptyMap /\ open_requests = 0 /\ sent_time_queue = <<>>
    /\ contracts_to_delete = EmptyMap /\ output_file = [day |-> 1, open |-> TRUE]
    /\ IF sec_type = "OPT"
       THEN /\ chain_kind = "ordered" /\ open_spot_price = 101
            /\ all_contracts \in BucketChains /\ all_contracts_fetched = TRUE
            /\ issued = [t \in Times |-> IF t = 0 THEN 1 ELSE 0]
       ELSE /\ chain_kind = "none" /\ open_spot_price = UnsetPrice
            /\ all_contracts = EmptyMap /\ all_contracts_fetched = FALSE
            /\ issued = [t \in Times |-> 0]
    /\ prov_open = {} /\ ref_open = FALSE /\ det_open = FALSE
    /\ rpc = "idle" /\ r_tmp = 0 /\ resp_exc = "none" /\ last = NoEvent
    /\ written = {}
    /\ no_data = {} /\ barred = {} /\ bucket_sent = <<>>

NextBuckets ==
    \/ Bucket \/ RemoveClear
    \/ PacingPass \/ SendLoad \/ SendStore
    \/ Drain \/ FinalDrain
    \/ EvEnd \/ EvError
    \/ RespStore

SpecBuckets == InitBuckets /\ [][NextBuckets]_vars

-----------------------------------------------------------------------------
(* Properties *)

\* no send_historical_data_request, historicalDataEnd or error is half done
Quiescent == rpc # "dec" /\ mpc # "send_store"

\* a step of the response thread that runs one callback
IsCallback == rpc = "idle" /\ UNCHANGED <<mainVars, sent_time_queue, now>>

\* the reqHistoricalData calls made in the 10 minutes that start at minute t
WindowCount(t) == SumIssued(issued, {u \in Times : t <= u /\ u < t + EvictMinutes})

\* the timestamps of sent_time_queue that are at most 10 minutes old
RecentInQueue ==
    Cardinality({i \in 1..Len(sent_time_queue) : now - sent_time_queue[i] <= EvictMinutes})

\* C1: whenever no send or callback is half done, open_requests equals the
\* number of entries of the registry req_id_to_contract.
C1_CounterEqualsRegistry ==
    Quiescent => open_requests = Cardinality(DOMAIN req_id_to_contract)

\* C2: once main has left the drain wait and closed a day's output file, no
\* request sent for that day is still awaiting its terminal event.
C2_ClosedDayIsResolved ==
    (output_file.day # 0 /\ ~output_file.open)
        => \A p \in prov_open : p[2] # output_file.day

\* C3: at most 60 reqHistoricalData calls, the reference-price queries
\* included, are made within any 10 minutes.
C3_RateLimit == \A t \in Times : WindowCount(t) <= ProviderRate

\* C4: at most 50 historical data requests are active (sent and without a
\* terminal event) at any moment.
C4_ActiveLimit == Cardinality(prov_open) <= ProviderOpen

\* C5: from the return of check_pacing_violations to the send that follows it,
\* at most 58 timestamps of the last 10 minutes are in sent_time_queue and
\* open_requests is below 50, whatever the response thread does meanwhile.
C5_PacingOnReturn ==
    mpc = "send" => /\ RecentInQueue <= ProviderRate - 2
                    /\ open_requests < ProviderOpen

\* the gate returned at both limits while a callback's decrement is half done
C5_Witness ==
    /\ mpc = "send"
    /\ rpc = "dec"
    /\ RecentInQueue = ProviderRate - 2
    /\ open_requests = ProviderOpen - 1

\* C6: a send never reuses the id of a registry entry: the step that issues a
\* tracked request adds one entry to the registry and overwrites none.
C6_FreshId ==
    [][(mpc \in {"send", "send_store"} /\ issued' # issued)
        => Cardinality(DOMAIN req_id_to_contract')
             = Cardinality(DOMAIN req_id_to_contract) + 1]_vars

\* two requests with ids drawn by get_req_id are in the registry together
C6_Witness == Cardinality((DOMAIN req_id_to_contract) \cap RandIds) >= 2

\* C7: the no-data error of a tracked request removes the request's entry
\* from the registry (and queues its side and starts the decrement).
C7_NoDataRemovesEntry ==
    [][(IsCallback /\ last'.kind = "error" /\ last'.known
          /\ last'.code = NoDataCode /\ last'.msg = NoDataMsg /\ rpc' # "dead")
        => /\ last'.id \notin DOMAIN req_id_to_contract'
           /\ rpc' = "dec"
           /\ contracts_to_delete' # contracts_to_delete]_vars

\* C8: when remove_contracts returns, all_contracts has no strike with an
\* empty side mapping and contracts_to_delete is empty.
C8_NoEmptyStrike ==
    [][(mpc = "remove_clear" /\ mpc' # "remove_clear")
        => /\ \A s \in DOMAIN all_contracts' : all_contracts'[s] # <<>>
           /\ contracts_to_delete' = EmptyMap]_vars

\* C9: historicalDataEnd for an id that is neither in the registry nor the
\* reference-price id raises, and changes neither the registry nor
\* open_requests.
C9_UnknownEndRaises ==
    [][(IsCallback /\ last'.kind = "historicalDataEnd" /\ ~last'.known
          /\ last'.id # OPEN_SPOT_PRICE_REQ_ID)
        => /\ rpc' = "dead"
           /\ resp_exc' = "UnknownReqId"
           /\ req_id_to_contract' = req_id_to_contract
           /\ open_requests' = open_requests]_vars

C9_Witness ==
    /\ last.kind = "historicalDataEnd" /\ ~last.known /\ last.id \in StrayIds
    /\ resp_exc = "UnknownReqId"

\* an event with an id that is not in the registry and is no pseudo-request id
UnknownEvent(e) ==
    /\ ~e.known
    /\ e.id \notin {OPEN_SPOT_PRICE_REQ_ID, ALL_OPTION_CONTRACTS_DETAILS_REQ_ID}

C11_SkippedDateIssuesNothing ==
    [][(mpc = "file_check" /\ mpc' \notin {"file_check", "bucket"} /\ day = 1)
        => /\ \A t \in Times : issued'[t] = 0
           /\ ~det_open' /\ ~all_contracts_fetched']_vars

\* C12: with N requests sent and M of them terminated, open_requests is N - M,
\* the number of requests the provider still owes a terminal event, whenever no
\* increment or decrement is half done and no callback has raised.
C12_CounterIsSentMinusTerminated ==
    (Quiescent /\ resp_exc = "none") => open_requests = Cardinality(prov_open)

\* C13: within one option_chain_data instance open_spot_price changes once,
\* from -1 to the close of the first reference-price bar: once it is set, no
\* step changes it until get_all_needed_contracts makes the next instance.
C13_SpotPriceSetOnce ==
    [][(open_spot_price # UnsetPrice /\ mpc # "start_date")
        => open_spot_price' = open_spot_price]_vars

\* the strikes of the chain within the band around the anchor, the strike
\* closest to the reference price
InBand(contracts, spot) ==
    LET anchor == take_closest(DOMAIN contracts, spot)
    IN {s \in DOMAIN contracts : Abs(s - anchor) * DistDen <= DistNum * anchor}

\* C14: keep_close_strikes deletes exactly the strikes farther than pct from
\* the anchor and keeps every other strike with all its sides, whatever
\* contracts_to_delete held when it was called.
C14_KeepsExactlyTheBand ==
    [][(mpc = "wait_contracts" /\ mpc' # "wait_contracts")
        => all_contracts' = [s \in InBand(all_contracts, open_spot_price)
                                |-> all_contracts[s]]]_vars

\* C15: the buckets main issues tile the session: the first starts at the
\* session start and is at most request_interval long, every later one is
\* request_interval long and starts where the one before ended, and the last
\* one ends at the session close.
C15_BucketsTileSession ==
    [][/\ (mpc = "file_check" /\ mpc' = "bucket")
            => /\ query_time - interval_size = config.start_time
               /\ interval_size > 0
               /\ interval_size <= config.request_interval
       /\ (query_time' # query_time /\ mpc \in {"send_store", "remove_clear"})
            => /\ interval_size' = config.request_interval
               /\ query_time' - interval_size' = query_time
       /\ (mpc = "bucket" /\ mpc' = "drain")
            => query_time - config.request_interval = config.end_time]_vars

\* C16: once the no-data error of a (strike, side) has been handled before a
\* bucket's remove_contracts begins, no request for that (strike, side) is
\* sent in that bucket or in a later bucket of the day (option runs).
C16_FailedSideNotRequestedAgain ==
    [][(sec_type = "OPT" /\ Len(bucket_sent') > Len(bucket_sent))
        => <<bucket_sent'[Len(bucket_sent')][1],
             bucket_sent'[Len(bucket_sent')][2]>> \notin barred']_vars

\* C17: when the provider answers every request and both threads are
\* scheduled fairly, the end-of-day drain wait exits: the day's output file is
\* closed and main goes on to the next date (or to the final wait).
C17_DrainExits ==
    (mpc = "drain") ~> (mpc \in {"start_date", "final_drain"} /\ ~output_file.open)

\* every request sent so far is still outstanding and no send is half done,
\* as after k calls on a fresh instance: then the queue holds k timestamps,
\* open_requests is k and the registry has k entries
KCalls ==
    (mpc # "send_store" /\ Cardinality(prov_open) = Len(sent_time_queue))
        => /\ open_requests = Len(sent_time_queue)
           /\ Cardinality(DOMAIN req_id_to_contract) = Len(sent_time_queue)

AskThenBid(contracts) ==
    [i \in 1..(2 * Len(contracts)) |->
        <<contracts[(i + 1) \div 2][1], contracts[(i + 1) \div 2][2],
          IF i % 2 = 1 THEN "ASK" ELSE "BID">>]

IsPrefix(a, b) == Len(a) <= Len(b) /\ a = SubSeq(b, 1, Len(a))

\* C19: in every bucket, the requests sent are one ASK and then one BID for
\* each instrument of the universe as it is right after the bucket's
\* remove_contracts (the universe does not change from the clear() of
\* remove_contracts to the bucket's end), and a send only follows a completed
\* check_pacing_violations of its own: main enters a send from the gate alone
\* and goes from a send back to the gate or to the next bucket.
C19_AskThenBidBehindGate ==
    [][/\ (mpc \in {"remove_clear", "check", "send", "send_store"})
            => (all_contracts' = all_contracts)
       /\ (bucket_sent' # bucket_sent /\ mpc \in {"send", "send_store"})
            => IsPrefix(bucket_sent', AskThenBid(get_wanted_contracts))
       /\ (mpc \in {"send_store", "remove_clear"} /\ mpc' = "bucket")
            => (bucket_sent' = AskThenBid(get_wanted_contracts))
       /\ (mpc' = "send" /\ mpc # "send")
            => (mpc = "check" /\ isConnected /\ check_pacing_violations)
       /\ (mpc = "send" /\ mpc' # "send") => mpc' = "send_store"
       /\ (mpc = "send_store" /\ mpc' # "send_store")
            => mpc' \in {"check", "bucket"}]_vars

\* the second bucket of an option run is complete for a universe of two
\* instruments, one instrument having been removed after the first bucket
C19_Witness ==
    /\ sec_type = "OPT" /\ mpc = "bucket"
    /\ query_time > config.end_time
    /\ Len(bucket_sent) = 4
    /\ no_data # {}

\* C20: in historical mode an error event with a filtered code (2103, 2104,
\* 2108, 2157, 2158) changes no state, whatever id it carries: the registry,
\* open_requests, contracts_to_delete, the option chain, the output and the
\* response thread are as before.
C20_FilteredErrorChangesNothing ==
    [][(IsCallback /\ last'.kind = "error" /\ last'.code \in FilteredCodes)
        => UNCHANGED <<req_id_to_contract, open_requests, contracts_to_delete,
                       chainVars, output_file, written, no_data,
                       rpc, r_tmp, resp_exc>>]_vars

\* a notice with a filtered code and the id of a tracked FX request was
\* handled and the response thread goes on
C20_Witness ==
    /\ last.kind = "error" /\ last.code = 2158 /\ last.known
    /\ sec_type = "FX" /\ last.id \in DOMAIN req_id_to_contract
    /\ rpc = "idle" /\ resp_exc = "none"

\* C21: an error event of a tracked request whose code is neither filtered
\* nor the no-data code leaves the request's registry entry in place and
\* leaves the registry, open_requests and contracts_to_delete unchanged; no
\* decrement is started.
C21_OtherErrorKeepsEntry ==
    [][(IsCallback /\ last'.kind = "error" /\ last'.known
          /\ last'.code \notin FilteredCodes /\ last'.code # NoDataCode)
        => /\ last'.id \in DOMAIN req_id_to_contract'
           /\ UNCHANGED <<req_id_to_contract, open_requests, contracts_to_delete>>
           /\ rpc' # "dec"]_vars

\* error 165 of a tracked option request was handled and the request is
\* still in the registry
C21_Witness ==
    /\ last.kind = "error" /\ last.known /\ last.code = 165
    /\ sec_type = "OPT" /\ last.id \in DOMAIN req_id_to_contract
    /\ rpc = "idle" /\ resp_exc = "none"

\* C22: once contractDetailsEnd has set all_contracts_fetched, all_contracts
\* gains no (strike, side) until get_all_needed_contracts starts the next
\* date: every step taken while the flag stays set leaves the universe as it
\* was or shrinks it.
C22_UniverseOnlyShrinks ==
    [][(all_contracts_fetched /\ all_contracts_fetched')
        => Flat(all_contracts') \subseteq Flat(all_contracts)]_vars

\* C23: get_underline_open_price returns only when open_spot_price is no
\* longer -1, and from its return to the read in keep_close_strikes the
\* price stays the one that was set when it returned.
C23_SpotReadIsSpotReturned ==
    [][/\ (mpc = "wait_spot" /\ mpc' # "wait_spot") => (open_spot_price # UnsetPrice)
       /\ (mpc = "wait_contracts") => (open_spot_price' = open_spot_price)]_vars

\* C24: when remove_contracts returns, every (strike, side) whose no-data
\* error error() has handled this date is either absent from all_contracts
\* or still queued in contracts_to_delete (option runs).
C24_NoLostRemoval ==
    [][(sec_type = "OPT" /\ mpc = "remove_clear" /\ mpc' # "remove_clear")
        => \A c \in no_data' :
              \/ c \notin Flat(all_contracts')
              \/ /\ c[1] \in DOMAIN contracts_to_delete'
                 /\ c[2] \in SeqSet(contracts_to_delete'[c[1]])]_vars

\* C25: open_requests is never negative, whatever events the provider
\* delivers for tracked ids, an end of stream or a second no-data error after
\* a request's no-data error included.
C25_CounterNotNegative == open_requests >= 0

\* C26: every bar written to an output file belongs to a request issued for
\* that file's date.
C26_BarsGoToTheirDaysFile == \A w \in written : w[1] = w[2]

\* C27: every id of a tracked request lies in 10..99999, so it is neither 1
\* (reference price) nor 2 (contract details), and an event carrying one of
\* these two ids is never taken for the event of a tracked request.
C27_TrackedIdsInRange ==
    /\ \A id \in (DOMAIN req_id_to_contract) \cup {p[1] : p \in prov_open} :
          /\ IdLo <= id /\ id <= IdMax
          /\ id \notin {OPEN_SPOT_PRICE_REQ_ID, ALL_OPTION_CONTRACTS_DETAILS_REQ_ID}
    /\ last.id \in {OPEN_SPOT_PRICE_REQ_ID, ALL_OPTION_CONTRACTS_DETAILS_REQ_ID}
          => ~last.known

\* an option run, which used the ids 1 and 2, has two tracked requests with
\* ids of get_req_id, and a bar of one of them was handled
C27_Witness ==
    /\ sec_type = "OPT" /\ output_file.day = 1
    /\ Cardinality((DOMAIN req_id_to_contract) \cap RandIds) = 2
    /\ last.kind = "historicalData" /\ last.known /\ last.id \in RandIds
    /\ resp_exc = "none"

====
